---- MODULE Spec2Model ----
(***************************************************************************)
(* A model of the moabb dataset adapters BCIComp.py (Dataset4a and its     *)
(* download helpers) and Ma2020.py.                                        *)
(*                                                                         *)
(*   SpecFetch : download_train / download_test / download_file            *)
(*   SpecAsm   : Dataset4a._get_single_subject_data                        *)
(*   SpecMa    : Ma2020._get_single_subject_data                           *)
(*                                                                         *)
(* Time is counted in milliseconds, file contents are sequences of bytes.  *)
(***************************************************************************)
EXTENDS Integers, Sequences, FiniteSets, TLC

VARIABLES
    \* ---- fetcher (BCIComp.py, lines 28-84)
    target,      \* which resolve the caller uses: "train" or "test"
    fs,          \* the cache directory: path -> [exists, data]
    pc,          \* position of the running call: "idle", "download", "unzip"
    status,      \* HTTP status of the last response (0: none yet)
    chunk_size,  \* download_file's local chunk_size
    lat,         \* the values dt took in the current transfer, in order
    recv,        \* the chunks iter_content yielded in the current transfer
    nreq,        \* number of requests.get calls issued so far
    outcome,     \* how the last call ended: "none", "running", "ok" or an error
    retpath,     \* the path the last call returned ("none" if it did not)
    lastAbort,   \* chunks written by the last transfer that died mid-stream (-1: none)
    \* ---- Dataset4a assembly (BCIComp.py, lines 127-163)
    asm,
    \* ---- Ma2020 assembly (Ma2020.py, lines 57-83)
    ma

vars == <<target, fs, pc, status, chunk_size, lat, recv, nreq, outcome, retpath, lastAbort, asm, ma>>

(***************************************************************************)
(* Bounds of the model.                                                    *)
(***************************************************************************)
MaxChunks == 3      \* iterations of the chunk loop in one transfer
MaxReq == 2         \* HTTP requests in one behaviour
MaxSamples == 4     \* columns of train_data['cnt'].T
MaxCues == 2        \* entries of train_data['mrk'] pos and of true_y
MaxAnn == 2         \* inline annotations of one Ma2020 run file

(***************************************************************************)
(* Fetcher: constants and pure helpers.                                    *)
(***************************************************************************)
InitialChunkSize == 8192
FastLatency == 10       \* 0.01 s
SlowLatency == 100      \* 0.1 s

\* Latencies the clock may show between two chunks (ms): both sides of and
\* exactly on the two thresholds.
Latencies == {5, 10, 100, 200}

\* Bytes of a response body.  "P" stands for the zip magic, "m" for the bytes
\* of the archive member data_set_IVa_<subject>.mat.
Bytes == {"P", "m"}
Chunks == {<<>>} \cup {<<b>> : b \in Bytes}
Statuses == {200, 404}

Paths == {"matpath", "zippath", "zippath.part", "destination", "destination.part"}
NoFile == [exists |-> FALSE, data |-> <<>>]
File(d) == [exists |-> TRUE, data |-> d]

\* download_file's destination argument, per caller.
DestOf(t) == IF t = "train" THEN "zippath" ELSE "destination"

\* temp_file_name = destination + ".part"
TempDirect(destination) == destination
TempName(destination) == destination \o ".part"

\* mode = 'ab' if initial_size > 0 else 'wb', with initial_size = 0: open()
\* truncates whatever the path held.
OpenAppend(f) == File(f.data)
OpenTemp(f) == File(<<>>)

\* The if/elif on dt inside the chunk loop.
AdaptNoFloor(cs, dt) ==
    IF dt < FastLatency THEN cs * 2
    ELSE IF dt > SlowLatency THEN cs \div 2
    ELSE cs
AdaptChunkSize(cs, dt) ==
    IF dt < FastLatency THEN cs * 2
    ELSE IF dt > SlowLatency /\ cs > InitialChunkSize THEN cs \div 2
    ELSE cs

\* shutil.move(temp_file_name, destination)
Move(f, src, dst) ==
    IF src = dst THEN f
    ELSE [f EXCEPT ![dst] = f[src], ![src] = NoFile]

\* z.ZipFile(zippath, 'r') raises BadZipFile unless the file is an archive.
IsZip(d) == Len(d) > 0 /\ d[1] = "P"
\* Whether the archive holds the member 1000Hz/data_set_IVa_<subject>.mat.
HasMat(d) == \E i \in 2..Len(d) : d[i] = "m"
\* f.extractall(base_path); os.remove(zippath)
Extract(f) ==
    LET d == f["zippath"].data
        g == IF HasMat(d) THEN [f EXCEPT !["matpath"] = File(<<"m">>)] ELSE f
    IN  [g EXCEPT !["zippath"] = NoFile]

RECURSIVE Flatten(_)
Flatten(cs) == IF cs = <<>> THEN <<>> ELSE Head(cs) \o Flatten(Tail(cs))

(***************************************************************************)
(* Fetcher: actions.                                                       *)
(***************************************************************************)
AsmIdle == [pc |-> "unused"]
MaIdle == [pc |-> "unused"]

\* download_train and download_test work on disjoint paths and share no
\* state, so a behaviour follows the calls for one of the two targets.
InitFetch ==
    /\ target \in {"train", "test"}
    /\ fs = [p \in Paths |-> NoFile]
    /\ pc = "idle"
    /\ status = 0
    /\ chunk_size = InitialChunkSize
    /\ lat = <<>>
    /\ recv = <<>>
    /\ nreq = 0
    /\ outcome = "none"
    /\ retpath = "none"
    /\ lastAbort = -1
    /\ asm = AsmIdle
    /\ ma = MaIdle

\* requests.get(...) raised (unreachable host, timeout): the call ends there.
GetRaises ==
    /\ nreq' = nreq + 1
    /\ outcome' = "NetworkError"
    /\ retpath' = "none"
    /\ UNCHANGED <<target, fs, pc, status, chunk_size, lat, recv, lastAbort>>

\* requests.get(...) returned a response with status s; download_file runs up
\* to the head of its chunk loop.
EnterDownload(s) ==
    LET tmp == TempName(DestOf(target)) IN
    /\ nreq' = nreq + 1
    /\ status' = s
    /\ fs' = [fs EXCEPT ![tmp] = OpenTemp(fs[tmp])]
    /\ chunk_size' = InitialChunkSize
    /\ lat' = <<>>
    /\ recv' = <<>>
    /\ pc' = "download"
    /\ outcome' = "running"
    /\ retpath' = "none"
    /\ UNCHANGED <<target, lastAbort>>

Return(path) ==
    /\ pc' = "idle"
    /\ outcome' = "ok"
    /\ retpath' = path

download_train ==
    /\ pc = "idle"
    /\ target = "train"
    /\ IF fs["matpath"].exists
         THEN /\ Return("matpath")
              /\ UNCHANGED <<target, fs, status, chunk_size, lat, recv, nreq, lastAbort>>
       ELSE IF fs["zippath"].exists
         THEN /\ pc' = "unzip"
              /\ outcome' = "running"
              /\ retpath' = "none"
              /\ UNCHANGED <<target, fs, status, chunk_size, lat, recv, nreq, lastAbort>>
       ELSE /\ nreq < MaxReq
            /\ \/ GetRaises
               \/ \E s \in Statuses : EnterDownload(s)
    /\ UNCHANGED <<asm, ma>>

download_test ==
    /\ pc = "idle"
    /\ target = "test"
    /\ IF fs["destination"].exists
         THEN /\ Return("destination")
              /\ UNCHANGED <<target, fs, status, chunk_size, lat, recv, nreq, lastAbort>>
       ELSE /\ nreq < MaxReq
            /\ \/ GetRaises
               \/ \E s \in Statuses : EnterDownload(s)
    /\ UNCHANGED <<asm, ma>>

\* The loop of download_file is left (empty chunk or exhausted iterator): the
\* with block closes the file, shutil.move renames it, download_file returns
\* and the caller goes on.
FinishDownload(f) ==
    LET dst == DestOf(target) IN
    /\ fs' = Move(f, TempName(dst), dst)
    /\ IF target = "train"
         THEN /\ pc' = "unzip"
              /\ UNCHANGED <<outcome, retpath>>
         ELSE Return("destination")

\* One iteration of `for chunk in response.iter_content(chunk_size)`.
RecvChunk ==
    /\ pc = "download"
    /\ Len(recv) < MaxChunks
    /\ \E c \in Chunks, dt \in Latencies :
         LET tmp == TempName(DestOf(target)) IN
         /\ chunk_size' = AdaptChunkSize(chunk_size, dt)
         /\ lat' = Append(lat, dt)
         /\ recv' = Append(recv, c)
         /\ IF c = <<>>
              THEN FinishDownload(fs)
              ELSE /\ fs' = [fs EXCEPT ![tmp] = File(fs[tmp].data \o c)]
                   /\ UNCHANGED <<pc, outcome, retpath>>
    /\ UNCHANGED <<target, status, nreq, lastAbort, asm, ma>>

\* iter_content is exhausted: the for loop ends.
StreamEnd ==
    /\ pc = "download"
    /\ FinishDownload(fs)
    /\ UNCHANGED <<target, status, chunk_size, lat, recv, nreq, lastAbort, asm, ma>>

\* iter_content or local_file.write raises: the exception leaves download_file
\* and its caller; shutil.move is not reached.
StreamError ==
    /\ pc = "download"
    /\ pc' = "idle"
    /\ outcome' = "IOError"
    /\ lastAbort' = Len(fs[TempName(DestOf(target))].data)
    /\ UNCHANGED <<target, fs, status, chunk_size, lat, recv, nreq, retpath, asm, ma>>

\* Lines 38-41 of download_train.
Unzip ==
    /\ pc = "unzip"
    /\ IF IsZip(fs["zippath"].data)
         THEN /\ fs' = Extract(fs)
              /\ Return("matpath")
         ELSE /\ pc' = "idle"
              /\ outcome' = "BadZipFile"
              /\ UNCHANGED <<fs, retpath>>
    /\ UNCHANGED <<target, status, chunk_size, lat, recv, nreq, lastAbort, asm, ma>>

NextFetch ==
    \/ download_train
    \/ download_test
    \/ RecvChunk
    \/ StreamEnd
    \/ StreamError
    \/ Unzip

SpecFetch == InitFetch /\ [][NextFetch]_vars

(***************************************************************************)
(* Fetcher: properties.                                                    *)
(***************************************************************************)
FinalPath == DestOf(target)
PartPath == IF target = "train" THEN "zippath.part" ELSE "destination.part"
ResolvedPath == IF target = "train" THEN "matpath" ELSE "destination"
Is2xx(s) == s \in 200..299

\* C1: once a call of resolve has succeeded, the next call with the same
\* arguments issues no HTTP request and returns the same path.
C1_SecondCallIsCacheHit ==
    [][(pc = "idle" /\ outcome = "ok")
         => (nreq' = nreq /\ outcome' = "ok" /\ retpath' = retpath)]_vars

\* No file at the final destination, and one at the temporary path.
C2_NoFinalWhileTransfer ==
    (pc = "download" \/ outcome = "IOError")
        => (~fs[FinalPath].exists /\ fs[PartPath].exists)
\* A step that makes the final destination exist is the rename that ends a
\* transfer.
C2_FinalOnlyByRename ==
    (~fs[FinalPath].exists /\ fs'[FinalPath].exists)
        => /\ pc = "download"
           /\ (recv' = recv \/ recv'[Len(recv')] = <<>>)
           /\ fs'[FinalPath].data = fs[PartPath].data
           /\ ~fs'[PartPath].exists
\* C2: while a transfer is in progress and after one was interrupted, no file
\* exists at the final destination and the .part file does; the destination
\* comes into existence only by the rename of the .part file, in the step in
\* which the stream ends.
C2_Atomicity == [](C2_NoFinalWhileTransfer) /\ [][C2_FinalOnlyByRename]_vars
C2_Witness ==
    /\ pc = "idle" /\ outcome = "IOError" /\ lastAbort >= 1
    /\ fs[PartPath].exists /\ Len(fs[PartPath].data) >= 1
    /\ ~fs[FinalPath].exists

\* The sizes the stated rule gives for the latencies l, from the size cs.
RECURSIVE RuleSizes(_, _)
RuleSizes(cs, l) ==
    IF l = <<>> THEN <<>>
    ELSE LET d == Head(l)
             nx == IF d < 10 THEN 2 * cs
                   ELSE IF d > 100 /\ cs > 8192 THEN cs \div 2
                   ELSE cs
         IN  <<nx>> \o RuleSizes(nx, Tail(l))
\* C3: chunk_size starts at 8192 and after each chunk is doubled when
\* dt < 0.01 s, halved when dt > 0.1 s and chunk_size > 8192, unchanged
\* otherwise; it never drops below 8192.  Latencies 5, 5, 200 ms give the
\* sizes 16384, 32768, 16384.
C3_ChunkAdaptation ==
    LET sizes == RuleSizes(8192, lat) IN
    /\ chunk_size >= 8192
    /\ chunk_size = IF lat = <<>> THEN 8192 ELSE sizes[Len(sizes)]
    /\ \A i \in 1..Len(sizes) : sizes[i] >= 8192
    /\ (lat = <<5, 5, 200>> => sizes = <<16384, 32768, 16384>>)
C3_Witness ==
    /\ pc = "download" /\ lat = <<5, 5, 200>> /\ chunk_size = 16384

\* C5: a response with a non-2xx status makes resolve fail with a network
\* error, and nothing of it is stored at the path resolve returns.
C5_Non2xxFails ==
    (status # 0 /\ ~Is2xx(status))
        => (outcome # "ok" /\ ~fs[ResolvedPath].exists)

\* C6: whenever resolve returns a path, a non-empty file exists at that path.
C6_ResultExistsNonEmpty ==
    outcome = "ok" => (fs[retpath].exists /\ Len(fs[retpath].data) > 0)

\* What the temporary and the final file hold is what this attempt received.
C9_ContentIsThisAttempt ==
    /\ (pc = "download" => fs[PartPath].data = Flatten(recv))
    /\ (fs[FinalPath].exists => fs[FinalPath].data = Flatten(recv))
\* The call after an aborted transfer issues a request.
C9_RetryRequestsAgain ==
    (pc = "idle" /\ outcome = "IOError") => nreq' = nreq + 1
\* A transfer starts with an empty temporary file.
C9_RetryRestartsFromZero ==
    (pc = "idle" /\ pc' = "download") => fs'[PartPath].data = <<>>
\* C9: after a transfer that died mid-stream the next call issues a new
\* request, the .part file restarts from zero bytes, and the file that a
\* successful attempt leaves holds exactly the chunks of that attempt, in
\* order, with nothing of the failed attempt.
C9_Retry ==
    /\ [](C9_ContentIsThisAttempt)
    /\ [][C9_RetryRequestsAgain /\ C9_RetryRestartsFromZero]_vars
C9_Witness ==
    /\ target = "test" /\ pc = "idle" /\ outcome = "ok" /\ nreq = 2
    /\ lastAbort >= 1
    /\ fs["destination"].exists /\ Len(fs["destination"].data) >= 1
    /\ fs["destination"].data = Flatten(recv)

(***************************************************************************)
(* Dataset4a._get_single_subject_data.  Python indices are kept 0-based;   *)
(* a TLA+ sequence holds Python element i at position i + 1.               *)
(***************************************************************************)
Labels == {0, 1, 2}
IndexError == -1000     \* marks an index numpy rejects

Max(a, b) == IF a >= b THEN a ELSE b
Min(a, b) == IF a <= b THEN a ELSE b
SetMin(S) == CHOOSE x \in S : \A y \in S : x <= y

\* numpy/Python integer indexing into an axis of length n: negative indices
\* count from the end, anything outside [-n, n) raises IndexError.
PyIndex(i, n) ==
    IF 0 <= i /\ i < n THEN i
    ELSE IF -n <= i /\ i < 0 THEN n + i
    ELSE IndexError

\* Python slice bound: negative counts from the end, then clamped to [0, n].
PyBound(p, n) == IF p < 0 THEN Max(p + n, 0) ELSE Min(p, n)
\* data[:, :p]
PySliceTo(s, p) == SubSeq(s, 1, PyBound(p, Len(s)))
\* data[:, p:]
PySliceFromSkip(s, p) == SubSeq(s, PyBound(p, Len(s)) + 2, Len(s))
PySliceFrom(s, p) == SubSeq(s, PyBound(p, Len(s)) + 1, Len(s))

\* Broadcasting true_y (shape (1, m)) to the n indexed cells: element k.
Broadcast(ty, k) == IF Len(ty) = 1 THEN ty[1] ELSE ty[k]

\* raw_event = np.zeros((1, N)); raw_event[:, cue_pos] = true_y
\* (where a position repeats, the last assignment stays).
EventRowShifted(N, cue, ty) ==
    [i \in 1..N |->
        LET ks == {k \in 1..Len(cue) : PyIndex(cue[k], N) + 1 = i - 1}
        IN  IF ks = {} THEN 0
            ELSE Broadcast(ty, CHOOSE k \in ks : \A j \in ks : j <= k)]
EventRow(N, cue, ty) ==
    [i \in 1..N |->
        LET ks == {k \in 1..Len(cue) : PyIndex(cue[k], N) + 1 = i}
        IN  IF ks = {} THEN 0
            ELSE Broadcast(ty, CHOOSE k \in ks : \A j \in ks : j <= k)]

\* Strictly increasing sequences of length <= m over lo..hi (mrk.pos holds
\* the cue onsets in ascending order).
RECURSIVE IncSeqs(_, _, _)
IncSeqs(lo, hi, m) ==
    IF m = 0 \/ lo > hi THEN {<<>>}
    ELSE {<<>>} \cup
         UNION {{<<x>> \o t : t \in IncSeqs(x + 1, hi, m - 1)} : x \in lo..hi}

SeqsUpTo(S, m) == UNION {[1..k -> S] : k \in 1..m}
SmallSets(S) == {T \in SUBSET S : Cardinality(T) <= 2}

AsmInput == [pc : {"loaded"}, N : 1..MaxSamples,
             cue_pos : IncSeqs(0, MaxSamples, MaxCues),
             test_idx : SmallSets(-2..MaxCues),
             true_y : SeqsUpTo(Labels, MaxCues)]

InitAsm ==
    /\ \E in \in AsmInput :
         /\ in.cue_pos \in IncSeqs(0, in.N, MaxCues)
         /\ asm = in
    /\ target = "none"
    /\ fs = [p \in Paths |-> NoFile]
    /\ pc = "unused"
    /\ status = 0
    /\ chunk_size = InitialChunkSize
    /\ lat = <<>>
    /\ recv = <<>>
    /\ nreq = 0
    /\ outcome = "none"
    /\ retpath = "none"
    /\ lastAbort = -1
    /\ ma = MaIdle

AsmFail(in, err) ==
    [pc |-> "done", N |-> in.N, cue_pos |-> in.cue_pos, test_idx |-> in.test_idx,
     true_y |-> in.true_y, result |-> err, sep_idx |-> 0, sep_pos |-> 0,
     data |-> <<>>, train |-> <<>>, test |-> <<>>]

\* Lines 143-163: the whole handler, from the loaded matrices to the returned
\* {'session_1': {'train': raw_train, 'test': raw_test}} or the exception.
Assemble(in) ==
    LET n == Len(in.cue_pos) IN
    IF in.test_idx = {} THEN AsmFail(in, "ValueError")          \* np.min of nothing
    ELSE LET sep_idx == SetMin(in.test_idx)
             at == PyIndex(sep_idx, n)
         IN
         IF at = IndexError THEN AsmFail(in, "IndexError")     \* cue_pos[0, sep_idx]
         ELSE IF \E k \in 1..n : PyIndex(in.cue_pos[k], in.N) = IndexError
              THEN AsmFail(in, "IndexError")                    \* raw_event[:, cue_pos]
         ELSE IF Len(in.true_y) # n /\ Len(in.true_y) # 1
              THEN AsmFail(in, "ValueError")                    \* cannot broadcast
         ELSE LET sep_pos == in.cue_pos[at + 1]
                  raw_event == EventRow(in.N, in.cue_pos, in.true_y)
                  data == [i \in 1..in.N |-> [sample |-> i - 1, event |-> raw_event[i]]]
              IN  [pc |-> "done", N |-> in.N, cue_pos |-> in.cue_pos,
                   test_idx |-> in.test_idx, true_y |-> in.true_y,
                   result |-> "ok", sep_idx |-> sep_idx, sep_pos |-> sep_pos,
                   data |-> data,
                   train |-> PySliceTo(data, sep_pos),
                   test |-> PySliceFrom(data, sep_pos)]

get_single_subject_data ==
    /\ asm.pc = "loaded"
    /\ asm' = Assemble(asm)
    /\ UNCHANGED <<target, fs, pc, status, chunk_size, lat, recv, nreq, outcome,
                   retpath, lastAbort, ma>>

NextAsm == get_single_subject_data

SpecAsm == InitAsm /\ [][NextAsm]_vars

(***************************************************************************)
(* Dataset4a assembly: properties.                                         *)
(***************************************************************************)
AsmOk == asm.pc = "done" /\ asm.result = "ok"
SamplesOf(seg) == {seg[j].sample : j \in 1..Len(seg)}

\* C4: for a split position p in [0, N) the train segment has p samples, the
\* test segment N - p, no sample is in both, and train followed by test is
\* the input in its order.
C4_SplitCompleteness ==
    (AsmOk /\ asm.sep_pos \in 0..(asm.N - 1))
        => /\ Len(asm.train) = asm.sep_pos
           /\ Len(asm.test) = asm.N - asm.sep_pos
           /\ SamplesOf(asm.train) \cap SamplesOf(asm.test) = {}
           /\ asm.train \o asm.test = asm.data
           /\ [i \in 1..asm.N |-> (asm.train \o asm.test)[i].sample]
                = [i \in 1..asm.N |-> i - 1]
C4_Witness ==
    /\ AsmOk /\ asm.N = 4 /\ asm.sep_idx = 0 /\ asm.sep_pos = 1
    /\ Len(asm.train) = 1 /\ Len(asm.test) = 3

\* C7: a label file whose boundary index (the minimum of test_idx) is out of
\* range for the cue positions, or that has no boundary, makes assembly fail
\* without segments; when assembly succeeds the split position is in [0, N).
C7_AlignmentFailure ==
    asm.pc = "done"
        => /\ (IF asm.test_idx = {} THEN TRUE
               ELSE SetMin(asm.test_idx) \notin 0..(Len(asm.cue_pos) - 1))
                 => (asm.result # "ok" /\ asm.train = <<>> /\ asm.test = <<>>)
           /\ asm.result = "ok" => asm.sep_pos \in 0..(asm.N - 1)

NRuns == 19             \* range(1, 20)
NRest == 75             \* np.zeros((75, 3)), np.arange(75.0)
StrWidth == 11          \* np.dtype('<U11')
RestIntervalQ == 17     \* 4.25 s, in quarters of a second
RestCode == 3           \* events[:, -1] = 3

S1 == <<"1">>
S2 == <<"2">>
S3 == <<"3">>
SLong == <<"b", "a", "d", "_", "s", "e", "g", "m", "e", "n", "t", "s">>
right_hand == <<"r", "i", "g", "h", "t", "_", "h", "a", "n", "d">>
right_elbow == <<"r", "i", "g", "h", "t", "_", "e", "l", "b", "o", "w">>
rest == <<"r", "e", "s", "t">>

\* 'run_{}'.format(run)
RunName(run) == <<"run_", run>>

\* One element of description.astype(np.dtype('<U11')): cut to 11 characters.
AsU11(d) == SubSeq(d, 1, Min(Len(d), StrWidth))

\* stim[stim == '1'] = 'right_hand'; stim[stim == '2'] = 'right_elbow',
\* stored back into an array of width 11.
RelabelBoth1(d) ==
    LET a == IF d = S1 THEN AsU11(right_hand) ELSE d
    IN  IF a = S2 THEN AsU11(right_hand) ELSE a
Relabel(d) ==
    LET a == IF d = S1 THEN AsU11(right_hand) ELSE d
    IN  IF a = S2 THEN AsU11(right_elbow) ELSE a

\* events[:, 0] = np.arange(75.0) * sfreq * 4.25; events[:, -1] = 3.
\* The sample column is kept in quarter samples, so that it stays an integer.
RestEvents(sfreq) ==
    [k \in 1..NRest |-> [sampleQ |-> (k - 1) * sfreq * RestIntervalQ,
                         code |-> RestCode]]

\* annotations_from_events(events, sfreq, event_desc={3: 'rest'}): one
\* annotation per event whose code is described, onset = sample / sfreq.
AnnotationsFromEvents(events, sfreq) ==
    LET keep == SelectSeq(events, LAMBDA e : e.code = RestCode)
    IN  [k \in 1..Len(keep) |->
            [onset |-> (keep[k].sampleQ * 1000) \div (4 * sfreq),
             description |-> rest]]

\* The body of the loop over the runs, for one raw file.
ProcessRun(raw) ==
    LET stim == [i \in 1..Len(raw.annotations) |-> AsU11(raw.annotations[i].description)]
    IN  IF Len(stim) # 0
        THEN [i \in 1..Len(stim) |->
                [onset |-> raw.annotations[i].onset, description |-> Relabel(stim[i])]]
        ELSE AnnotationsFromEvents(RestEvents(raw.sfreq), raw.sfreq)

\* Inline annotations a run file may carry: one every second.
AnnSeqs ==
    UNION {{[i \in 1..k |-> [onset |-> 1000 * i, description |-> f[i]]] :
              f \in [1..k -> {S1, S2, S3, SLong}]} : k \in 1..MaxAnn}

\* for run in range(1, 20)
LastRun == NRuns

InitMa ==
    /\ \E a \in AnnSeqs, restFrom \in 1..(NRuns + 1), sf \in {250, 1000} :
         ma = [pc |-> "loop", run |-> 1,
               files |-> [r \in 1..NRuns |->
                            [sfreq |-> sf,
                             annotations |-> IF r < restFrom THEN a ELSE <<>>]],
               sessions |-> [session_1 |-> <<>>]]
    /\ target = "none"
    /\ fs = [p \in Paths |-> NoFile]
    /\ pc = "unused"
    /\ status = 0
    /\ chunk_size = InitialChunkSize
    /\ lat = <<>>
    /\ recv = <<>>
    /\ nreq = 0
    /\ outcome = "none"
    /\ retpath = "none"
    /\ lastAbort = -1
    /\ asm = AsmIdle

\* sessions['session_1'][run_name] = raw
Store(d, key, val) ==
    [k \in DOMAIN d \cup {key} |-> IF k = key THEN val ELSE d[k]]

MaLoopStep ==
    /\ ma.pc = "loop"
    /\ ma.run <= LastRun
    /\ ma' = [ma EXCEPT
                !.sessions.session_1 =
                    Store(@, RunName(ma.run), ProcessRun(ma.files[ma.run])),
                !.run = @ + 1]
    /\ UNCHANGED <<target, fs, pc, status, chunk_size, lat, recv, nreq, outcome,
                   retpath, lastAbort, asm>>

MaReturn ==
    /\ ma.pc = "loop"
    /\ ma.run > LastRun
    /\ ma' = [ma EXCEPT !.pc = "done"]
    /\ UNCHANGED <<target, fs, pc, status, chunk_size, lat, recv, nreq, outcome,
                   retpath, lastAbort, asm>>

NextMa == MaLoopStep \/ MaReturn

SpecMa == InitMa /\ [][NextMa]_vars

\* C10: one session holding exactly one segment per run, run_1 .. run_19; in
\* a run with inline annotations every '1' becomes right_hand, every '2'
\* right_elbow, and none is added or removed; a run without any gets exactly
\* 75 'rest' annotations, the k-th (from 0) at k * 4.25 s.
C10_CaseA ==
    ma.pc = "done"
        => /\ DOMAIN ma.sessions = {"session_1"}
           /\ DOMAIN ma.sessions.session_1 = {<<"run_", r>> : r \in 1..19}
           /\ \A r \in 1..19 :
                LET in == ma.files[r].annotations
                    out == ma.sessions.session_1[<<"run_", r>>]
                IN  IF in # <<>>
                    THEN /\ Len(out) = Len(in)
                         /\ \A i \in 1..Len(in) :
                              /\ out[i].onset = in[i].onset
                              /\ in[i].description = <<"1">>
                                   => out[i].description = right_hand
                              /\ in[i].description = <<"2">>
                                   => out[i].description = right_elbow
                    ELSE /\ Len(out) = 75
                         /\ \A k \in 0..74 :
                              /\ out[k + 1].description = rest
                              /\ out[k + 1].onset = k * 4250
C10_Witness ==
    /\ ma.pc = "done"
    /\ ma.files[1].annotations # <<>>
    /\ \E i \in 1..Len(ma.files[1].annotations) :
         ma.files[1].annotations[i].description = <<"2">>
    /\ ma.files[19].annotations = <<>>
    /\ Len(ma.sessions.session_1[<<"run_", 19>>]) = 75

====
